---- MODULE Spec2Model ----
(***************************************************************************)
(* Model of the 1-D hillslope / hydrology processes of the hydrology       *)
(* notebook (src/notebooks/08-hydrology.ipynb): the xsimlab processes      *)
(* Geom, Erosion, Uplift, Topography and Precipitation, and the helper     *)
(* functions integrate and computeHydro.                                   *)
(*                                                                         *)
(* Numbers.  The code computes in IEEE doubles.  The model computes in     *)
(* exact rationals [n, d] (d > 0, lowest terms), extended by one value     *)
(* NaN (d = 0) that every arithmetic operation propagates and every        *)
(* comparison answers FALSE for, as numpy does.  Rounding of +, -, *, /    *)
(* is not modelled; np.sqrt is exact on squares of rationals and rounded   *)
(* down to a multiple of 1/SqrtPrec elsewhere.                             *)
(***************************************************************************)
EXTENDS Integers, Sequences, FiniteSets, TLC

\* ------------------------------------------------------------------ bounds
MaxN == 4          \* largest node count nx tried
MaxLength == 3     \* largest domain length tried
MaxSteps == 2      \* number of time steps of a run
MaxHydroN == 3     \* largest profile length given to computeHydro
SqrtPrec == 64     \* np.sqrt of a non-square is rounded down to 1/SqrtPrec
MaxSteadyN == 5    \* largest node count of the runs on a longer grid
MaxSteadyLength == 4   \* largest domain length of the runs on a longer grid
MaxProfileN == 4   \* largest surface given to Erosion.run_step on its own
MaxStableSteps == 4    \* number of time steps of the longer runs

\* ------------------------------------------------------ float arithmetic
Abs(x) == IF x < 0 THEN -x ELSE x

RECURSIVE Gcd(_, _)
Gcd(a, b) == IF b = 0 THEN a ELSE Gcd(b, a % b)

NaN == [n |-> 0, d |-> 0]

IsNaN(a) == a.d = 0

\* the number n/d in lowest terms; x/0 is not produced by any caller
Rat(n, d) ==
    IF d = 0 THEN NaN
    ELSE LET g == Gcd(Abs(n), Abs(d))
             s == IF d < 0 THEN -1 ELSE 1
         IN  [n |-> s * (n \div g), d |-> s * (d \div g)]

R(k) == [n |-> k, d |-> 1]

RAdd(a, b) == IF IsNaN(a) \/ IsNaN(b) THEN NaN ELSE Rat(a.n * b.d + b.n * a.d, a.d * b.d)

RNeg(a) == IF IsNaN(a) THEN NaN ELSE [n |-> -a.n, d |-> a.d]

RSub(a, b) == RAdd(a, RNeg(b))

RMul(a, b) == IF IsNaN(a) \/ IsNaN(b) THEN NaN ELSE Rat(a.n * b.n, a.d * b.d)

\* a / b for b # 0
RDiv(a, b) == IF IsNaN(a) \/ IsNaN(b) THEN NaN ELSE Rat(a.n * b.d, a.d * b.n)

\* a < b ; FALSE when either is NaN
RLt(a, b) == ~IsNaN(a) /\ ~IsNaN(b) /\ a.n * b.d < b.n * a.d

\* a > b ; FALSE when either is NaN
RGt(a, b) == RLt(b, a)

RLe(a, b) == ~IsNaN(a) /\ ~IsNaN(b) /\ a.n * b.d <= b.n * a.d

\* largest r in lo..hi with r*r <= m, given lo*lo <= m < (hi+1)*(hi+1)
RECURSIVE ISqrtIn(_, _, _)
ISqrtIn(lo, hi, m) ==
    IF lo = hi THEN lo
    ELSE LET mid == (lo + hi + 1) \div 2
         IN  IF mid * mid <= m THEN ISqrtIn(mid, hi, m) ELSE ISqrtIn(lo, mid - 1, m)

\* a power of two h with h*h > m
RECURSIVE SqrtUpper(_, _)
SqrtUpper(h, m) == IF h * h > m THEN h ELSE SqrtUpper(2 * h, m)

\* the integer square root of m >= 0
ISqrt(m) == ISqrtIn(0, SqrtUpper(1, m), m)

\* np.sqrt: NaN for a negative or NaN argument
RSqrt(a) ==
    IF IsNaN(a) \/ a.n < 0 THEN NaN
    ELSE LET rn == ISqrt(a.n)
             rd == ISqrt(a.d)
         IN  IF rn * rn = a.n /\ rd * rd = a.d THEN Rat(rn, rd)
             ELSE Rat(ISqrt((a.n * SqrtPrec * SqrtPrec) \div a.d), SqrtPrec)

\* ------------------------------------------------------- numpy helpers
\* mutant: the line a[-1] = a[-2] left out
CopyLast_Omitted(s) == s

\* mutant: the copy made the other way round, a[-2] = a[-1]
CopyLast_Reversed(s) == [s EXCEPT ![Len(s) - 1] = s[Len(s)]]

\* a[-1] = a[-2] on an array of length >= 2
CopyLast(s) == [s EXCEPT ![Len(s)] = s[Len(s) - 1]]

Zeros(n) == [i \in 1..n |-> R(0)]

\* mutant: the end point left out, as np.linspace(0, stop, num, endpoint=False)
Linspace_NoEndpoint(stop, num) ==
    [i \in 1..num |-> RDiv(RMul(R(i - 1), stop), R(num))]

\* np.linspace(0, stop, num) for num >= 0: node i (from 0) holds i*stop/(num-1);
\* a single sample is the start value, no sample is the empty array
Linspace(stop, num) ==
    IF num = 1 THEN <<R(0)>>
    ELSE [i \in 1..num |-> RDiv(RMul(R(i - 1), stop), R(num - 1))]

\* A field of dims [(), 'x']: a scalar (its value held as v[1]), or a 1-D array.
Scalar(v) == [tag |-> "scalar", v |-> <<v>>]

Array(s) == [tag |-> "array", v |-> s]

\* whether np.broadcast_to(f, n) succeeds: a scalar, an array of n values,
\* or an array of one value (numpy stretches a dimension of size 1)
Broadcastable(f, n) == f.tag = "scalar" \/ Len(f.v) = n \/ Len(f.v) = 1

\* np.broadcast_to(f, n).flatten() of a broadcastable field
BroadcastTo(f, n) ==
    IF f.tag = "scalar" THEN [i \in 1..n |-> f.v[1]]
    ELSE IF Len(f.v) = n THEN f.v
    ELSE [i \in 1..n |-> f.v[1]]

\* ------------------------------------------------------------ the state
VARIABLES
    nx,             \* Geom.nx
    length,         \* Geom.length
    slope,          \* Geom.slope
    L,              \* Erosion.L, written by Geom
    dx,             \* Erosion.dx
    kd,             \* Erosion.kd, a field
    erosion_dtopo,  \* Erosion.dtopo, member of group 'dtopo'
    rate,           \* Uplift.rate, a field
    uplift_dtopo,   \* Uplift.dtopo, member of group 'dtopo'; <<>> until first assigned
    elevation,      \* Topography.elevation
    elevation_old,  \* the elevation Topography.run_step last read (history)
    dt,             \* step_delta of the current step
    phase,          \* "idle" between steps, "running" within one, "error" once a process raised
    done,           \* the processes that have run in the current step
    steps,          \* completed steps
    order,          \* the processes in the order they ran in the current step (history)
    step_start,     \* elevation and the two increment buffers as the current step found them (history)
    dt_max,         \* the largest step_delta of the run so far (history)
    p_rate,         \* Precipitation.rate, a field
    integrated,     \* Precipitation.integrated; <<>> until first assigned
    x,              \* argument of integrate
    integ,          \* result of integrate
    B, z, accum, K, \* arguments of computeHydro (with dx)
    H               \* result of computeHydro

vars == <<nx, length, L, dx, kd, erosion_dtopo, rate, uplift_dtopo, elevation,
          elevation_old, dt, phase, done, steps, order, step_start, dt_max, slope,
          p_rate, integrated, x, integ,
          B, z, accum, K, H>>

topoVars == <<nx, length, L, dx, kd, erosion_dtopo, rate, uplift_dtopo, elevation,
              elevation_old, dt, done, steps, order, step_start,
              dt_max, slope>>

precipVars == <<p_rate, integrated>>

integVars == <<x, integ>>

hydroVars == <<B, z, accum, K, H>>

\* ------------------------------------------------------------ input sets
ScalarValues == {0, 1, 2}

ArrayValues == {0, 1}

DtValues == {Rat(1, 2), R(1)}

\* sequences of length n over the integers of S, as numbers
RSeqs(S, n) == {[i \in 1..n |-> R(f[i])] : f \in [1..n -> S]}

\* the values a field input may be given: any scalar, any 1-D array
Fields ==
    {Scalar(R(v)) : v \in ScalarValues}
    \cup UNION {{Array(s) : s \in RSeqs(ArrayValues, n)} : n \in 1..MaxN}

\* ----------------------------------------------------------------- Geom
\* mutant: the profile scaled by the input slope, z = slope * linspace
GeomInitialize_Sloped(len, num) ==
    [i \in 1..num |-> RMul(slope, Linspace(len, num)[i])]

\* Geom.initialize: the value written to Topography.elevation
GeomInitialize(len, num) == Linspace(len, num)

\* -------------------------------------------------------------- Erosion
\* Erosion.initialize: dx
ErosionInitializeDx(l, surface) == RDiv(l, R(Len(surface) - 1))

\* Erosion.initialize: dtopo
ErosionInitializeDtopo(surface) == Zeros(Len(surface))

\* mutant: the division by 2 left out
ErosionInterior_NoHalf(surface, kd_var, ddx, ddt, i) ==
    RMul(RDiv(ddt, RMul(ddx, ddx)),
         RSub(RMul(RSub(surface[i - 1], surface[i]), RAdd(kd_var[i - 1], kd_var[i])),
              RMul(RSub(surface[i], surface[i + 1]), RAdd(kd_var[i], kd_var[i + 1]))))

\* mutant: the node's own kd on both faces instead of the sum of the
\* neighbouring values (not in flux form)
ErosionInterior_NodeKd(surface, kd_var, ddx, ddt, i) ==
    RMul(RDiv(RDiv(ddt, RMul(ddx, ddx)), R(2)),
         RSub(RMul(RSub(surface[i - 1], surface[i]), RAdd(kd_var[i], kd_var[i])),
              RMul(RSub(surface[i], surface[i + 1]), RAdd(kd_var[i], kd_var[i]))))

\* mutant: the differences taken the other way round, so that the flux
\* runs uphill
ErosionInterior_Uphill(surface, kd_var, ddx, ddt, i) ==
    RMul(RDiv(RDiv(ddt, RMul(ddx, ddx)), R(2)),
         RSub(RMul(RSub(surface[i], surface[i - 1]), RAdd(kd_var[i - 1], kd_var[i])),
              RMul(RSub(surface[i + 1], surface[i]), RAdd(kd_var[i], kd_var[i + 1]))))

\* mutant: the two face fluxes added instead of subtracted
ErosionInterior_FluxSum(surface, kd_var, ddx, ddt, i) ==
    RMul(RDiv(RDiv(ddt, RMul(ddx, ddx)), R(2)),
         RAdd(RMul(RSub(surface[i - 1], surface[i]), RAdd(kd_var[i - 1], kd_var[i])),
              RMul(RSub(surface[i], surface[i + 1]), RAdd(kd_var[i], kd_var[i + 1]))))

\* the right-hand side assigned to dtopo[1:-1], at node i (1-based, 2..N-1)
ErosionInterior(surface, kd_var, ddx, ddt, i) ==
    RMul(RDiv(RDiv(ddt, RMul(ddx, ddx)), R(2)),
         RSub(RMul(RSub(surface[i - 1], surface[i]), RAdd(kd_var[i - 1], kd_var[i])),
              RMul(RSub(surface[i], surface[i + 1]), RAdd(kd_var[i], kd_var[i + 1]))))

\* mutant: the line dtopo[0] = 0 left out
SetFirstZero_Omitted(s) == s

\* dtopo[0] = 0
SetFirstZero(s) == [s EXCEPT ![1] = R(0)]

\* mutant: the line dtopo[-1] = dtopo[-2] left out
ErosionDtopo_NoMirror(dtopo, surface, kd_var, ddx, ddt) ==
    LET n  == Len(surface)
        d1 == [i \in 1..n |-> IF i >= 2 /\ i <= n - 1
                              THEN ErosionInterior(surface, kd_var, ddx, ddt, i)
                              ELSE dtopo[i]]
    IN  SetFirstZero(d1)

\* mutant: only the interior slice assigned, both boundary lines left out
ErosionDtopo_KeepsBoundaries(dtopo, surface, kd_var, ddx, ddt) ==
    [i \in 1..Len(surface) |-> IF i >= 2 /\ i <= Len(surface) - 1
                               THEN ErosionInterior(surface, kd_var, ddx, ddt, i)
                               ELSE dtopo[i]]

\* Erosion.run_step on the buffer dtopo, for a broadcast kd_var
ErosionDtopo(dtopo, surface, kd_var, ddx, ddt) ==
    LET n  == Len(surface)
        d1 == [i \in 1..n |-> IF i >= 2 /\ i <= n - 1
                              THEN ErosionInterior(surface, kd_var, ddx, ddt, i)
                              ELSE dtopo[i]]
    IN  CopyLast(SetFirstZero(d1))

\* --------------------------------------------------------------- Uplift
\* mutant: the rate published without the factor dt
UpliftDtopo_NoDt(u_var, ddt) == SetFirstZero(u_var)

\* Uplift.run_step for a broadcast u_var
UpliftDtopo(u_var, ddt) == SetFirstZero([i \in 1..Len(u_var) |-> RMul(ddt, u_var[i])])

\* ----------------------------------------------------------- Topography
\* elementwise a + b
VAdd(a, b) == [i \in 1..Len(a) |-> RAdd(a[i], b[i])]

\* mutant: each member overwrites the running total instead of adding to it
SumGroup_Overwrite(group) == group[Len(group)]

\* sum(self.dtopo): Python's sum starts from 0 and adds the group's members in order
SumGroup(group) == 
    LET RECURSIVE Acc(_, _)
        Acc(acc, k) == IF k > Len(group) THEN acc
                       ELSE Acc([i \in 1..Len(group[k]) |-> RAdd(acc[i], group[k][i])], k + 1)
    IN  Acc([i \in 1..Len(group[1]) |-> R(0)], 1)

\* mutant: only the first member of the group added
TopographyElevation_FirstOnly(elev, group) == CopyLast(VAdd(elev, group[1]))

\* Topography.run_step: the new elevation
TopographyElevation(elev, group) == CopyLast(VAdd(elev, SumGroup(group)))

\* ------------------------------------------------------------ integrate
\* integrate(x): integ = x.copy(), then for i = len-1 down to 1 (0-based)
\* integ[i-1] = integ[i-1] + integ[i].  Here i is 1-based: i runs Len..2.
RECURSIVE IntegrateLoop(_, _)
IntegrateLoop(s, i) ==
    IF i < 2 THEN s
    ELSE IntegrateLoop([s EXCEPT ![i - 1] = RAdd(s[i - 1], s[i])], i - 1)

\* mutant: the loop run head to tail, integ[i] = integ[i] + integ[i-1]
RECURSIVE ForwardLoop(_, _)
ForwardLoop(s, i) ==
    IF i > Len(s) THEN s
    ELSE ForwardLoop([s EXCEPT ![i] = RAdd(s[i], s[i - 1])], i + 1)

integrate_Forward(xx) == ForwardLoop(xx, 2)

integrate(xx) == IntegrateLoop(xx, Len(xx))

\* -------------------------------------------------------- Precipitation
\* mutant: the local flux with its sign turned
PrecipitationLocal_Negated(r_var, ddx) ==
    [i \in 1..Len(r_var) |-> RNeg(RMul(r_var[i], ddx))]

\* Precipitation.run_step: _rate = broadcast(rate) * dx
PrecipitationLocal(r_var, ddx) == [i \in 1..Len(r_var) |-> RMul(r_var[i], ddx)]

\* --------------------------------------------------------- computeHydro
\* b of node i (1-based, i >= 2)
HydroB(BB, zz, i) == RAdd(RAdd(RSub(RNeg(zz[i]), zz[i - 1]), BB[i]), BB[i - 1])

\* mutant: the accumulation read one node to the left, accum[i-1]
HydroC_PrevAccum(BB, zz, acc, ddx, KK, hp, i) ==
    RSub(RMul(RSub(RSub(RSub(RAdd(zz[i], zz[i - 1]), BB[i]), BB[i - 1]), hp), hp),
         RDiv(RMul(RMul(R(2), ddx), acc[i - 1]), KK))

\* c of node i, from the previous node's water table hp = H[i-1]
HydroC(BB, zz, acc, ddx, KK, hp, i) ==
    RSub(RMul(RSub(RSub(RSub(RAdd(zz[i], zz[i - 1]), BB[i]), BB[i - 1]), hp), hp),
         RDiv(RMul(RMul(R(2), ddx), acc[i]), KK))

\* H[i] = (-b + np.sqrt(b**2 - 4*c)) / 2
HydroRoot(b, c) == RDiv(RAdd(RNeg(b), RSqrt(RSub(RMul(b, b), RMul(R(4), c)))), R(2))

\* mutant: the upper clamp left out
ClampUpper_Omitted(h, zi) == h

\* if H[i] > z[i]: H[i] = z[i]
ClampUpper(h, zi) == IF RGt(h, zi) THEN zi ELSE h

\* mutant: the lower clamp left out
ClampLower_Omitted(h, zi, Bi) == h

\* if H[i] < z[i] - B[i]: H[i] = z[i] - B[i]
ClampLower(h, zi, Bi) == IF RLt(h, RSub(zi, Bi)) THEN RSub(zi, Bi) ELSE h

\* the body of the loop at node i
HydroNode(BB, zz, acc, ddx, KK, hp, i) ==
    ClampLower(ClampUpper(HydroRoot(HydroB(BB, zz, i), HydroC(BB, zz, acc, ddx, KK, hp, i)),
                          zz[i]),
               zz[i], BB[i])

RECURSIVE HydroLoop(_, _, _, _, _, _, _)
HydroLoop(HH, BB, zz, acc, ddx, KK, i) ==
    IF i > Len(HH) THEN HH
    ELSE HydroLoop([HH EXCEPT ![i] = HydroNode(BB, zz, acc, ddx, KK, HH[i - 1], i)],
                   BB, zz, acc, ddx, KK, i + 1)

\* computeHydro(B, z, accum, dx, K): H = z.copy(), then nodes 1..N-1 in order
computeHydro(BB, zz, acc, ddx, KK) == HydroLoop(zz, BB, zz, acc, ddx, KK, 2)

\* ===================================================== the time-stepping run
\* values of the variables a specification does not exercise
IdlePrecip == p_rate = Scalar(R(0)) /\ integrated = <<>>

IdleInteg == x = <<>> /\ integ = <<>>

IdleHydro == B = <<>> /\ z = <<>> /\ accum = <<>> /\ K = R(1) /\ H = <<>>

\* the state after the initialization stage: Geom.initialize, then Erosion.initialize
InitGrid(num, len) ==
    /\ slope = R(1)
    /\ nx = num
    /\ length = len
    /\ L = len
    /\ elevation = GeomInitialize(len, num)
    /\ dx = ErosionInitializeDx(L, elevation)
    /\ erosion_dtopo = ErosionInitializeDtopo(elevation)
    /\ uplift_dtopo = <<>>
    /\ elevation_old = elevation
    /\ dt = R(0)
    /\ phase = "idle"
    /\ done = {}
    /\ steps = 0
    /\ order = <<>>
    /\ step_start = <<elevation, erosion_dtopo, uplift_dtopo>>
    /\ dt_max = R(0)

Init ==
    /\ \E num \in 2..MaxN, len \in 1..MaxLength : InitGrid(num, R(len))
    /\ kd \in Fields
    /\ rate \in Fields
    /\ IdlePrecip /\ IdleInteg /\ IdleHydro

\* the driver starts a step of a run of limit steps and hands step_delta to
\* the processes
BeginStepOf(limit) ==
    /\ phase = "idle"
    /\ steps < limit
    /\ dt' \in DtValues
    /\ phase' = "running"
    /\ order' = <<>>
    /\ step_start' = <<elevation, erosion_dtopo, uplift_dtopo>>
    /\ dt_max' = IF RGt(dt', dt_max) THEN dt' ELSE dt_max
    /\ UNCHANGED <<slope, nx, length, L, dx, kd, erosion_dtopo, rate, uplift_dtopo, elevation,
                   elevation_old, done, steps, precipVars, integVars, hydroVars>>

BeginStep == BeginStepOf(MaxSteps)

\* Erosion.run_step: np.broadcast_to raises on a shape it cannot stretch, and
\* dtopo[0] = 0 or dtopo[-1] = dtopo[-2] raises IndexError on fewer than 2
\* nodes (on one node dtopo[0] = 0 rewrites the zero already there)
ErosionRunStep ==
    /\ phase = "running"
    /\ "erosion" \notin done
    /\ IF Broadcastable(kd, Len(elevation)) /\ Len(elevation) >= 2
       THEN /\ erosion_dtopo' = ErosionDtopo(erosion_dtopo, elevation,
                                             BroadcastTo(kd, Len(elevation)), dx, dt)
            /\ done' = done \cup {"erosion"}
            /\ order' = Append(order, "erosion")
            /\ phase' = phase
       ELSE /\ phase' = "error"
            /\ UNCHANGED <<erosion_dtopo, done, order>>
    /\ UNCHANGED <<nx, length, L, dx, kd, rate, uplift_dtopo, elevation, elevation_old,
                   dt, steps, step_start, dt_max, slope, precipVars, integVars, hydroVars>>

\* Uplift.run_step: np.broadcast_to raises on a shape it cannot stretch, and
\* dtopo[0] = 0 raises IndexError on an empty grid (the buffer is then the
\* empty array, written <<>> like the unset one)
UpliftRunStep ==
    /\ phase = "running"
    /\ "uplift" \notin done
    /\ IF Broadcastable(rate, nx) /\ nx >= 1
       THEN /\ uplift_dtopo' = UpliftDtopo(BroadcastTo(rate, nx), dt)
            /\ done' = done \cup {"uplift"}
            /\ order' = Append(order, "uplift")
            /\ phase' = phase
       ELSE /\ phase' = "error"
            /\ UNCHANGED <<uplift_dtopo, done, order>>
    /\ UNCHANGED <<nx, length, L, dx, kd, erosion_dtopo, rate, elevation, elevation_old,
                   dt, steps, step_start, dt_max, slope, precipVars, integVars, hydroVars>>

\* the orders in which the generator self.dtopo may yield the group's members:
\* the source fixes none
GroupOrders(e, u) == {<<e, u>>, <<u, e>>}

\* mutant: Uplift.dtopo is not a member of group 'dtopo', so that Topography
\* waits for Erosion alone
TopographyRunStep_ErosionOnly ==
    /\ phase = "running"
    /\ "erosion" \in done
    /\ elevation' = TopographyElevation(elevation, <<erosion_dtopo>>)
    /\ elevation_old' = elevation
    /\ done' = {}
    /\ steps' = steps + 1
    /\ phase' = "idle"
    /\ UNCHANGED <<nx, length, L, dx, kd, erosion_dtopo, rate, uplift_dtopo, dt,
                   order, step_start, dt_max, slope, precipVars, integVars, hydroVars>>

\* Topography.run_step: runs once every member of group 'dtopo' is published,
\* and ends the step
TopographyRunStep ==
    /\ phase = "running"
    /\ done = {"erosion", "uplift"}
    /\ \E group \in GroupOrders(erosion_dtopo, uplift_dtopo) :
          elevation' = TopographyElevation(elevation, group)
    /\ elevation_old' = elevation
    /\ done' = {}
    /\ steps' = steps + 1
    /\ phase' = "idle"
    /\ UNCHANGED <<nx, length, L, dx, kd, erosion_dtopo, rate, uplift_dtopo, dt,
                   order, step_start, dt_max, slope, precipVars, integVars, hydroVars>>

Next == BeginStep \/ ErosionRunStep \/ UpliftRunStep \/ TopographyRunStep

Spec == Init /\ [][Next]_vars

\* ======================================= a run from unchecked grid parameters
\* nx and length as the caller may give them, the invalid ones included
NxValues == -1..MaxSteadyN

LengthValues == -1..MaxSteadyLength

\* Geom.slope is an input like the others
SlopeValues == {0, 1, 2}

ConfigFields == {Scalar(R(v)) : v \in ScalarValues}

\* the model is built, no process has been initialized
InitConfig ==
    /\ slope \in {R(v) : v \in SlopeValues}
    /\ nx \in NxValues
    /\ \E len \in LengthValues : length = R(len)
    /\ kd \in ConfigFields
    /\ rate \in ConfigFields
    /\ L = NaN
    /\ dx = NaN
    /\ elevation = <<>>
    /\ elevation_old = <<>>
    /\ erosion_dtopo = <<>>
    /\ uplift_dtopo = <<>>
    /\ dt = R(0)
    /\ phase = "created"
    /\ done = {}
    /\ steps = 0
    /\ order = <<>>
    /\ step_start = <<<<>>, <<>>, <<>>>>
    /\ dt_max = R(0)
    /\ IdlePrecip /\ IdleInteg /\ IdleHydro

\* the initialization stage: Geom.initialize, then Erosion.initialize.
\* np.linspace raises ValueError on a negative number of samples; nothing
\* else is tested. On one node dx = L/0 is a non-finite number, held as NaN.
InitializeStage ==
    /\ phase = "created"
    /\ IF nx < 0
       THEN /\ phase' = "error"
            /\ UNCHANGED <<L, dx, elevation, elevation_old, erosion_dtopo, step_start>>
       ELSE /\ L' = length
            /\ elevation' = GeomInitialize(length, nx)
            /\ dx' = ErosionInitializeDx(L', elevation')
            /\ erosion_dtopo' = ErosionInitializeDtopo(elevation')
            /\ elevation_old' = elevation'
            /\ step_start' = <<elevation', erosion_dtopo', uplift_dtopo>>
            /\ phase' = "idle"
    /\ UNCHANGED <<nx, length, kd, rate, uplift_dtopo, dt, done, steps, order, dt_max,
                   slope,
                   precipVars, integVars, hydroVars>>

NextConfig == InitializeStage \/ Next

SpecConfig == InitConfig /\ [][NextConfig]_vars

\* ================================================= a run on a longer grid
\* diffusivities of a grid of n nodes: any scalar, any array of n values
SteadyFields(n) == ConfigFields \cup {Array(s) : s \in RSeqs(ArrayValues, n)}

SteadyRates == {Scalar(R(0)), Scalar(R(1))}

InitSteady ==
    /\ \E num \in 2..MaxSteadyN, len \in 1..MaxSteadyLength :
          /\ InitGrid(num, R(len))
          /\ kd \in SteadyFields(num)
    /\ rate \in SteadyRates
    /\ IdlePrecip /\ IdleInteg /\ IdleHydro

SpecSteady == InitSteady /\ [][Next]_vars

\* ==================================== run_step of a contributor on its own
\* Erosion.surface is a foreign input: any profile may be handed to it
ProfileValues == {0, 1, 2}

ProfileLengths == {1, 2}

\* what an increment buffer may hold at every node when run_step is entered;
\* 0 stands for the state initialization leaves
BufferValues == {0, 1}

\* Erosion is initialized on a surface of num nodes, and the buffers hold
\* what initialization or an earlier step left
InitContributors ==
    /\ \E num \in 2..MaxProfileN, len \in ProfileLengths, b \in BufferValues :
          /\ slope = R(1)
          /\ nx = num
          /\ length = R(len)
          /\ L = R(len)
          /\ elevation \in RSeqs(ProfileValues, num)
          /\ dx = ErosionInitializeDx(L, elevation)
          /\ erosion_dtopo = [i \in 1..num |-> R(b)]
          /\ uplift_dtopo = IF b = 0 THEN <<>> ELSE [i \in 1..num |-> R(b)]
          /\ kd \in SteadyFields(num)
    /\ rate \in SteadyRates
    /\ elevation_old = elevation
    /\ dt = R(0)
    /\ phase = "idle"
    /\ done = {}
    /\ steps = 0
    /\ order = <<>>
    /\ step_start = <<elevation, erosion_dtopo, uplift_dtopo>>
    /\ dt_max = R(0)
    /\ IdlePrecip /\ IdleInteg /\ IdleHydro

NextContributors == BeginStep \/ ErosionRunStep \/ UpliftRunStep

SpecContributors == InitContributors /\ [][NextContributors]_vars

\* ============================ a longer run of diffusion alone (no uplift)
InitStable ==
    /\ \E num \in 2..MaxN, len \in 1..MaxLength : InitGrid(num, R(len))
    /\ kd \in ConfigFields
    /\ rate = Scalar(R(0))
    /\ IdlePrecip /\ IdleInteg /\ IdleHydro

NextStable ==
    \/ BeginStepOf(MaxStableSteps)
    \/ ErosionRunStep
    \/ UpliftRunStep
    \/ TopographyRunStep

SpecStable == InitStable /\ [][NextStable]_vars

\* ================================================ Precipitation on its own
\* rates with a negative value: the code puts no sign condition on the rate
SignedValues == {-1, 1}

SignedFields ==
    {Scalar(R(-1))} \cup UNION {{Array(s) : s \in RSeqs(SignedValues, n)} : n \in 2..MaxN}

InitPrecip ==
    /\ \E num \in 2..MaxN, len \in 1..MaxLength : InitGrid(num, R(len))
    /\ kd = Scalar(R(0))
    /\ rate = Scalar(R(0))
    /\ p_rate \in Fields \cup SignedFields
    /\ integrated = <<>>
    /\ IdleInteg /\ IdleHydro

\* Precipitation.run_step, once per step; x and integ record its call of integrate
PrecipitationRunStep ==
    /\ phase = "idle"
    /\ steps < MaxSteps
    /\ IF Broadcastable(p_rate, nx)
       THEN /\ x' = PrecipitationLocal(BroadcastTo(p_rate, nx), dx)
            /\ integ' = integrate(x')
            /\ integrated' = integ'
            /\ steps' = steps + 1
            /\ phase' = phase
       ELSE /\ phase' = "error"
            /\ UNCHANGED <<integrated, steps, x, integ>>
    /\ UNCHANGED <<nx, length, L, dx, kd, erosion_dtopo, rate, uplift_dtopo, elevation,
                   elevation_old, dt, done, order, step_start, dt_max, slope,
                   p_rate,
                   hydroVars>>

NextPrecip == PrecipitationRunStep

SpecPrecip == InitPrecip /\ [][NextPrecip]_vars

\* ===================================================== integrate on its own
IntegValues == {0, 1, 2}

InitInteg ==
    /\ InitGrid(2, R(1))
    /\ kd = Scalar(R(0))
    /\ rate = Scalar(R(0))
    /\ x \in UNION {RSeqs(IntegValues, n) : n \in 0..MaxN}
    /\ integ = <<>>
    /\ IdlePrecip /\ IdleHydro

\* mutant: integ = x without .copy(), so that the loop's writes land in x
IntegrateCall_NoCopy ==
    /\ phase \in {"idle", "returned"}
    /\ integ' = integrate(x)
    /\ x' = integ'
    /\ phase' = "returned"
    /\ UNCHANGED <<topoVars, precipVars, hydroVars>>

\* a call integrate(x), the first or a later one on the same x
IntegrateCall ==
    /\ phase \in {"idle", "returned"}
    /\ integ' = integrate(x)
    /\ phase' = "returned"
    /\ UNCHANGED <<topoVars, precipVars, x, hydroVars>>

NextInteg == IntegrateCall

SpecInteg == InitInteg /\ [][NextInteg]_vars

\* ================================================== computeHydro on its own
ZValues == {0, 1, 2}

BValues == {0, 1}

AccumValues == {0, 1}

KValues == {R(1), R(2), R(-1)}

InitHydro ==
    /\ \E n \in 2..MaxHydroN, len \in 1..MaxLength :
          /\ InitGrid(n, R(len))
          /\ z \in RSeqs(ZValues, n)
          /\ B \in RSeqs(BValues, n)
          /\ accum \in RSeqs(AccumValues, n)
    /\ K \in KValues
    /\ H = <<>>
    /\ kd = Scalar(R(0))
    /\ rate = Scalar(R(0))
    /\ IdlePrecip /\ IdleInteg

\* a call computeHydro(B, z, accum, dx, K)
ComputeHydroCall ==
    /\ phase = "idle"
    /\ H' = computeHydro(B, z, accum, dx, K)
    /\ phase' = "returned"
    /\ UNCHANGED <<topoVars, precipVars, integVars, B, z, accum, K>>

NextHydro == ComputeHydroCall

SpecHydro == InitHydro /\ [][NextHydro]_vars

\* ============================== every operation beside the time-stepping run
\* thickness handed to computeHydro at every node
WriterB == 1

InitWriters ==
    /\ \E num \in 2..MaxN, len \in 1..MaxLength :
          /\ InitGrid(num, R(len))
          /\ B = [i \in 1..num |-> R(WriterB)]
    /\ kd \in ConfigFields
    /\ rate \in ConfigFields
    /\ p_rate \in ConfigFields
    /\ integrated = <<>>
    /\ x = <<R(1), R(2)>>
    /\ integ = <<>>
    /\ z = <<>> /\ accum = <<>> /\ K = R(1) /\ H = <<>>

\* mutant: H = z without .copy(), so that the loop's writes to H land in
\* the array passed as z
ComputeHydroOnElevation_NoCopy ==
    /\ phase = "idle"
    /\ integrated # <<>>
    /\ z' = elevation
    /\ accum' = integrated
    /\ H' = computeHydro(B, z', accum', dx, K)
    /\ elevation' = H'
    /\ UNCHANGED <<nx, length, L, dx, kd, erosion_dtopo, rate, uplift_dtopo,
                   elevation_old, dt, phase, done, steps, order, step_start, dt_max,
                   slope,
                   precipVars, integVars, B, K>>

\* a call computeHydro(B, z, accum, dx, K) between two steps, with the
\* elevation as z and the integrated precipitation as accum
ComputeHydroOnElevation ==
    /\ phase = "idle"
    /\ integrated # <<>>
    /\ z' = elevation
    /\ accum' = integrated
    /\ H' = computeHydro(B, z', accum', dx, K)
    /\ UNCHANGED <<topoVars, phase, precipVars, integVars, B, K>>

NextWriters ==
    \/ Next
    \/ PrecipitationRunStep
    \/ IntegrateCall
    \/ ComputeHydroOnElevation

SpecWriters == InitWriters /\ [][NextWriters]_vars

\* ================================================================ claims
N == Len(elevation)

\* the value of a field at node i (1-based) once broadcast to the grid
FieldAt(f, i) == IF f.tag = "scalar" \/ Len(f.v) = 1 THEN f.v[1] ELSE f.v[i]

\* Topography.run_step has committed the current step and nothing ran since
JustAccumulated == phase = "idle" /\ steps >= 1

\* what plain accumulation, without the boundary copy, gives at node i
Accumulated(i) == RAdd(elevation_old[i], RAdd(erosion_dtopo[i], uplift_dtopo[i]))

\* C1: after Topography.run_step the elevation at every node but the last is
\* the old elevation plus the sum of the increments published this step, and
\* the last node holds the new value of the node before it.
C1_Accumulator ==
    JustAccumulated =>
        /\ \A i \in 1..(N - 1) : elevation[i] = Accumulated(i)
        /\ elevation[N] = elevation[N - 1]

C1_Witness ==
    /\ JustAccumulated
    /\ N >= 3
    /\ erosion_dtopo[2] # R(0)
    /\ uplift_dtopo[2] # R(0)
    /\ elevation[N] # Accumulated(N)

\* C2: once a step has completed, the last node's elevation equals the
\* second-to-last node's, in every later state.
C2_RightBoundary == steps >= 1 => elevation[N] = elevation[N - 1]

C2_Witness ==
    /\ steps >= 1
    /\ phase = "running"
    /\ elevation_old[N] # elevation_old[N - 1]
    /\ elevation[N] # elevation_old[N]

\* C3: with Erosion and Uplift the only contributors, node 0 keeps the
\* elevation Geom.initialize gave it, whatever dt, kd and rate are.
C3_LeftBoundaryFixed == elevation[1] = GeomInitialize(length, nx)[1]

C3_Witness ==
    /\ steps >= 1
    /\ N >= 3
    /\ elevation[2] # GeomInitialize(length, nx)[2]
    /\ FieldAt(rate, 1) # R(0)
    /\ FieldAt(kd, 1) # R(0)
    /\ uplift_dtopo[1] = R(0)
    /\ erosion_dtopo[2] # R(0)

\* dt/(2*dx^2) * ((s[i-1]-s[i])*(kd[i-1]+kd[i]) - (s[i]-s[i+1])*(kd[i]+kd[i+1]))
DiffusionFormula(s, i) ==
    RMul(RDiv(dt, RMul(R(2), RMul(dx, dx))),
         RSub(RMul(RSub(s[i - 1], s[i]), RAdd(FieldAt(kd, i - 1), FieldAt(kd, i))),
              RMul(RSub(s[i], s[i + 1]), RAdd(FieldAt(kd, i), FieldAt(kd, i + 1)))))

\* C4: the diffusion increment at every interior node is the flux-form
\* formula evaluated on the elevation of before this step's accumulation.
C4_DiffusionInterior ==
    /\ "erosion" \in done =>
           \A i \in 2..(N - 1) : erosion_dtopo[i] = DiffusionFormula(elevation, i)
    /\ JustAccumulated =>
           \A i \in 2..(N - 1) : erosion_dtopo[i] = DiffusionFormula(elevation_old, i)

C4_Witness ==
    /\ JustAccumulated
    /\ steps = 2
    /\ N >= 4
    /\ kd.tag = "array" /\ Len(kd.v) = N /\ kd.v[1] # kd.v[2]
    /\ erosion_dtopo[2] # R(0)
    /\ erosion_dtopo[3] # R(0)
    /\ erosion_dtopo[3] # erosion_dtopo[2]
    /\ elevation # elevation_old

\* Erosion.run_step has run at least once
ErosionHasRun == "erosion" \in done \/ steps >= 1

\* C5: after Erosion.run_step the diffusion increment is 0 at node 0 and at
\* the last node equals the increment of the node before it.
C5_DiffusionBoundary ==
    ErosionHasRun =>
        /\ erosion_dtopo[1] = R(0)
        /\ erosion_dtopo[N] = erosion_dtopo[N - 1]
        /\ N = 2 => erosion_dtopo[2] = R(0)

C5_Witness ==
    /\ "erosion" \in done
    /\ N >= 3
    /\ erosion_dtopo[N] # R(0)
    /\ erosion_dtopo[N] = erosion_dtopo[N - 1]

\* Uplift.run_step has run, and dt is still the dt it ran with
UpliftCurrent == "uplift" \in done \/ JustAccumulated

\* C6: the uplift increment is rate*dt at every node but node 0, where it is 0.
C6_UpliftIncrement ==
    UpliftCurrent =>
        /\ Len(uplift_dtopo) = nx
        /\ uplift_dtopo[1] = R(0)
        /\ \A i \in 2..nx : uplift_dtopo[i] = RMul(FieldAt(rate, i), dt)

C6_Witness ==
    /\ "uplift" \in done
    /\ "erosion" \notin done
    /\ steps = 1
    /\ nx >= 3
    /\ rate.tag = "array" /\ Len(rate.v) = nx
    /\ rate.v[1] # R(0)
    /\ rate.v[2] # rate.v[3]
    /\ dt # R(1)

\* the sum of s[j] for j in lo..hi
RECURSIVE SumRange(_, _, _)
SumRange(s, lo, hi) == IF lo > hi THEN R(0) ELSE RAdd(s[lo], SumRange(s, lo + 1, hi))

\* C7: integrate(x)[i] is the sum of x[j] over j >= i; hence Precipitation
\* publishes integrated[i] = sum over j >= i of rate[j]*dx, which satisfies
\* integrated[i-1] = integrated[i] + rate[i-1]*dx.
C7_ReverseIntegration ==
    steps >= 1 =>
        /\ Len(integ) = Len(x)
        /\ \A i \in 1..Len(x) : integ[i] = SumRange(x, i, Len(x))
        /\ Len(integrated) = nx
        /\ \A i \in 1..nx :
              integrated[i] = RMul(SumRange([j \in 1..nx |-> FieldAt(p_rate, j)], i, nx), dx)
        /\ \A i \in 2..nx :
              integrated[i - 1] = RAdd(integrated[i], RMul(FieldAt(p_rate, i - 1), dx))

C7_Witness ==
    /\ steps >= 1
    /\ x = <<R(1), R(1), R(1), R(1)>>
    /\ dx = R(1)
    /\ integ = <<R(4), R(3), R(2), R(1)>>
    /\ integrated = integ

\* C8: as the docstring of integrate says, the i-th output is the sum of the
\* first element through element i of x.
C8_DocstringPrefixSum ==
    phase = "returned" =>
        /\ Len(integ) = Len(x)
        /\ \A i \in 1..Len(x) : integ[i] = SumRange(x, 1, i)

\* b^2 - 4c at node i (1-based, i >= 2) as the loop computed it
Discriminant(i) ==
    LET b == HydroB(B, z, i)
        c == HydroC(B, z, accum, dx, K, H[i - 1], i)
    IN  RSub(RMul(b, b), RMul(R(4), c))

\* the unclamped root at node i
RootAt(i) == HydroRoot(HydroB(B, z, i), HydroC(B, z, accum, dx, K, H[i - 1], i))

\* K > 0, B >= 0 everywhere, no negative discriminant
ValidHydroInput ==
    /\ RGt(K, R(0))
    /\ \A i \in 1..Len(B) : RLe(R(0), B[i])
    /\ \A i \in 2..Len(z) : ~RLt(Discriminant(i), R(0))

\* C9: for a valid input, computeHydro returns z[i] - B[i] <= H[i] <= z[i]
\* at every node.
C9_WaterTableBounds ==
    (phase = "returned" /\ ValidHydroInput) =>
        /\ Len(H) = Len(z)
        /\ \A i \in 1..Len(z) : RLe(RSub(z[i], B[i]), H[i]) /\ RLe(H[i], z[i])

\* both clamps and the unclamped case occur in one profile
C9_Witness ==
    /\ phase = "returned"
    /\ ValidHydroInput
    /\ Len(z) >= 3
    /\ \E i \in 2..Len(z) : RGt(RootAt(i), z[i]) /\ H[i] = z[i]
    /\ \E i \in 2..Len(z) : RLt(RootAt(i), RSub(z[i], B[i])) /\ H[i] = RSub(z[i], B[i])

NeitherClamp(i) == ~RGt(RootAt(i), z[i]) /\ ~RLt(RootAt(i), RSub(z[i], B[i]))

\* (K/2)*(H[i]-z[i]+B[i] + H[i-1]-z[i-1]+B[i-1]) * (H[i]-H[i-1])/dx
FluxLhs(i) ==
    RDiv(RMul(RMul(RDiv(K, R(2)),
                   RAdd(RAdd(RSub(H[i], z[i]), B[i]),
                        RAdd(RSub(H[i - 1], z[i - 1]), B[i - 1]))),
              RSub(H[i], H[i - 1])),
         dx)

\* h^2 + b*h + c at node i
Quadratic(h, i) ==
    RAdd(RAdd(RMul(h, h), RMul(HydroB(B, z, i), h)),
         HydroC(B, z, accum, dx, K, H[i - 1], i))

\* the square root taken at node i was exact
SqrtExact(i) == RMul(RSqrt(Discriminant(i)), RSqrt(Discriminant(i))) = Discriminant(i)

\* the flux balance at node i: exactly where the square root is exact, and
\* otherwise to within the rounding of the root (less than 1/(2*SqrtPrec))
FluxBalanced(i) ==
    IF SqrtExact(i) THEN FluxLhs(i) = accum[i]
    ELSE /\ RLe(Quadratic(H[i], i), R(0))
         /\ RGt(Quadratic(RAdd(H[i], Rat(1, 2 * SqrtPrec)), i), R(0))

\* C11: computeHydro returns H[0] = z[0], and at every node i >= 1 where
\* neither clamp fired H[i] is the larger root of the quadratic and satisfies
\* the discretised flux balance with the previous node's returned value.
C11_FluxBalance ==
    phase = "returned" =>
        /\ H[1] = z[1]
        /\ \A i \in 2..Len(z) :
              NeitherClamp(i) => (H[i] = RootAt(i) /\ FluxBalanced(i))

\* the same, for the inputs on which every discriminant is non-negative
C11_FluxBalanceRealRoots ==
    (phase = "returned" /\ \A i \in 2..Len(z) : RLe(R(0), Discriminant(i)))
        => /\ H[1] = z[1]
           /\ \A i \in 2..Len(z) :
                 NeitherClamp(i) => (H[i] = RootAt(i) /\ FluxBalanced(i))

\* ------------------------------------------------------------------ C12
\* C12: a negative discriminant at some node is surfaced as a domain error:
\* computeHydro never returns a profile that holds an undefined (NaN) value.
C12_NoNaNReturned ==
    phase = "returned" => \A i \in 1..Len(H) : ~IsNaN(H[i])

\* ------------------------------------------------------------------ C14
\* C14: a hydraulic conductivity K <= 0 is rejected before any node is
\* computed: computeHydro returns a profile only for K > 0.
C14_ConductivityRejected ==
    phase = "returned" => RGt(K, R(0))

\* ------------------------------------------------------------------ C13
InvalidGrid == nx < 2 \/ RLe(length, R(0))

\* C13: a geometry with nx < 2 or length <= 0 fails during initialization:
\* no run_step is executed and no elevation or dx value is produced.
C13_GridRejected ==
    InvalidGrid => /\ phase \in {"created", "error"}
                   /\ steps = 0 /\ done = {}
                   /\ elevation = <<>> /\ IsNaN(dx)

\* the part of C13 the code does meet: a negative nx stops the initialization
C13_NegativeNxRejected ==
    nx < 0 => (phase \in {"created", "error"} /\ elevation = <<>> /\ done = {})

\* a run on a negative length completes whole steps
C13_NegativeLengthRuns ==
    ~(RLt(length, R(0)) /\ nx >= 2 /\ steps = MaxSteps /\ phase = "idle")

\* ------------------------------------------------------------------ C15
\* a field in one of the two forms of dims [(), 'x'] on a grid of n nodes
Conforming(f, n) == f.tag = "scalar" \/ Len(f.v) = n

StateOfStep == <<elevation, erosion_dtopo, uplift_dtopo>>

\* C15: a step that broadcasts a field which is neither a scalar nor of
\* length N fails, and the failed step leaves the elevation and every
\* increment buffer as the step found them.
C15_ShapeErrorBeforeMutation ==
    /\ "erosion" \in done => Conforming(kd, N)
    /\ "uplift" \in done => Conforming(rate, N)
    /\ phase = "error" => StateOfStep = step_start

\* the second half of C15 alone: a failed step changed nothing
C15_FailedStepChangedNothing ==
    phase = "error" => StateOfStep = step_start

\* what the code does meet: the run_step that raises changes nothing itself
C15_FailingProcessChangesNothing ==
    [][phase' = "error" => StateOfStep' = StateOfStep]_vars

\* ------------------------------------------------------------------ C16
\* C16: a field is accepted only as a scalar or as exactly N values; every
\* other shape, a single value on a grid of more than one node included, is
\* rejected, and the two accepted forms are never rejected.
C16_ScalarOrExactLength ==
    /\ ("erosion" \in done \/ steps >= 1) => Conforming(kd, N)
    /\ ("uplift" \in done \/ steps >= 1) => Conforming(rate, N)
    /\ phase = "error" => (~Conforming(kd, N) \/ ~Conforming(rate, N))

\* what the code does: it rejects exactly the arrays of a length other than
\* N and 1
C16_NumpyBroadcast ==
    /\ ("erosion" \in done \/ steps >= 1) => Broadcastable(kd, N)
    /\ ("uplift" \in done \/ steps >= 1) => Broadcastable(rate, N)
    /\ phase = "error" => (~Broadcastable(kd, N) \/ ~Broadcastable(rate, N))

\* ------------------------------------------------------------------ C17
\* the transition is Topography.run_step committing a step
TopographyCommits ==
    phase = "running" /\ done = {"erosion", "uplift"} /\ phase' = "idle"

\* C17: only Topography.run_step changes the elevation: run_step of Erosion,
\* Uplift and Precipitation, integrate, and computeHydro called with the
\* elevation as z leave every element of it unchanged.
C17_SingleWriter ==
    [][elevation' # elevation => TopographyCommits]_vars

\* Precipitation.run_step and computeHydro ran on the first elevation, then
\* Erosion, Uplift and Topography ran and only then the elevation differs
\* from the one computeHydro was given
C17_Witness ==
    /\ phase = "idle"
    /\ integrated # <<>>
    /\ H # <<>>
    /\ Len(order) = 2
    /\ z = elevation_old
    /\ elevation # z

\* ------------------------------------------------------------------ C18
\* the transition is a contributor publishing its increment
ContributorPublishes == done' # done /\ done' # {}

\* every increment held at the commit was computed in this step from the
\* elevation the previous commit left
IncrementsOfThisStep ==
    JustAccumulated =>
        /\ step_start[1] = elevation_old
        /\ Len(order) = 2
        /\ \A i \in 2..(N - 1) : erosion_dtopo[i] = DiffusionFormula(elevation_old, i)
        /\ \A i \in 2..N : uplift_dtopo[i] = RMul(FieldAt(rate, i), dt)

\* C18: Topography.run_step runs only after every contributor has published
\* for the step, and a contributor runs only on the elevation that the
\* previous step's commit left, so every increment of a step is computed
\* from the elevation committed at the step before.
C18_AccumulatorBarrier ==
    /\ [][(phase = "running" /\ phase' = "idle") =>
             (done = {"erosion", "uplift"} /\ Len(order) = 2)]_vars
    /\ [][ContributorPublishes =>
             (phase = "running" /\ elevation = step_start[1] /\ elevation' = elevation)]_vars
    /\ [](phase \in {"running", "error"} => elevation = step_start[1])
    /\ []IncrementsOfThisStep

\* the second step has committed increments computed from the elevation of
\* the first commit, which differs from the initial one
C18_Witness ==
    /\ JustAccumulated
    /\ steps = 2
    /\ N >= 3
    /\ elevation_old # GeomInitialize(length, nx)
    /\ erosion_dtopo[2] # R(0)
    /\ uplift_dtopo[2] # R(0)
    /\ elevation # elevation_old

\* ------------------------------------------------------------------ C19
\* the elevation a step commits at node i < N, from the elevation before the
\* step and the parameters alone
CommittedFrom(old, i) ==
    RAdd(old[i],
         RAdd(IF i = 1 THEN R(0) ELSE DiffusionFormula(old, i),
              IF i = 1 THEN R(0) ELSE RMul(FieldAt(rate, i), dt)))

\* C19: the elevation a step commits is the same whatever the order in
\* which Erosion and Uplift ran and whatever the order in which their
\* increments are summed: it is a function of the elevation before the step.
C19_OrderIndependence ==
    JustAccumulated =>
        /\ order \in {<<"erosion", "uplift">>, <<"uplift", "erosion">>}
        /\ \A i \in 1..(N - 1) : elevation[i] = CommittedFrom(elevation_old, i)
        /\ elevation[N] = elevation[N - 1]
        /\ \A group \in GroupOrders(erosion_dtopo, uplift_dtopo) :
               elevation = TopographyElevation(elevation_old, group)

\* Uplift ran before Erosion and both published distinct non-zero increments
C19_Witness ==
    /\ JustAccumulated
    /\ order = <<"uplift", "erosion">>
    /\ N >= 3
    /\ erosion_dtopo[2] # R(0)
    /\ uplift_dtopo[2] # R(0)
    /\ erosion_dtopo[2] # uplift_dtopo[2]

\* the other order of evaluation is taken as well
C19_WitnessErosionFirst ==
    /\ JustAccumulated
    /\ order = <<"erosion", "uplift">>
    /\ N >= 3
    /\ erosion_dtopo[2] # R(0)
    /\ uplift_dtopo[2] # R(0)

\* ------------------------------------------------------------------ C20
\* consecutive differences of s are all equal
IsLinear(s) ==
    \A i \in 2..(Len(s) - 1) : RSub(s[i], s[i - 1]) = RSub(s[i + 1], s[i])

\* the field has one value over the whole grid
ConstantField(f) == \A i \in 1..N : FieldAt(f, i) = FieldAt(f, 1)

SteadyIncrement ==
    /\ \A i \in 2..(N - 1) : erosion_dtopo[i] = R(0)
    /\ erosion_dtopo[1] = R(0)
    /\ erosion_dtopo[N] = erosion_dtopo[N - 1]

\* C20: on a linear elevation profile with a constant kd, Erosion.run_step
\* yields an increment of exactly 0 at every interior node, for any dt; the
\* increment is 0 at node 0 and the last node's equals its neighbour's.
C20_SteadyState ==
    /\ ("erosion" \in done /\ IsLinear(elevation) /\ ConstantField(kd)) => SteadyIncrement
    /\ (JustAccumulated /\ IsLinear(elevation_old) /\ ConstantField(kd)) => SteadyIncrement

\* the scenario: N = 5, z = [0, 1, 2, 3, 4], dx = 1, kd = 1, dt = 0.5
C20_Witness ==
    /\ "erosion" \in done
    /\ steps = 0
    /\ elevation = <<R(0), R(1), R(2), R(3), R(4)>>
    /\ dx = R(1)
    /\ kd = Scalar(R(1))
    /\ dt = Rat(1, 2)
    /\ erosion_dtopo[3] = R(0)
    /\ erosion_dtopo[1] = R(0)
    /\ erosion_dtopo[5] = erosion_dtopo[4]

\* a profile that is not linear does move under the same kd
C20_WitnessNotLinear ==
    /\ "erosion" \in done
    /\ N = 5
    /\ ConstantField(kd)
    /\ ~IsLinear(elevation)
    /\ erosion_dtopo[4] # R(0)

\* ------------------------------------------------------------------ C21
\* the flux through the face between nodes i and i+1 (1-based) of profile s,
\* without the factor dt/(2*dx^2)
FaceFlux(s, i) == RMul(RSub(s[i], s[i + 1]), RAdd(FieldAt(kd, i), FieldAt(kd, i + 1)))

\* what the interior increments computed on s must sum to
BoundaryFluxes(s) ==
    RMul(RDiv(dt, RMul(R(2), RMul(dx, dx))),
         RSub(FaceFlux(s, 1), FaceFlux(s, Len(s) - 1)))

NoFluxBoundaries(s) == s[1] = s[2] /\ s[Len(s) - 1] = s[Len(s)]

Conserves(s) ==
    /\ SumRange(erosion_dtopo, 2, N - 1) = BoundaryFluxes(s)
    /\ (NoFluxBoundaries(s) /\ ConstantField(kd)) =>
           SumRange(erosion_dtopo, 2, N - 1) = R(0)

\* C21: the diffusion increments of the interior nodes sum to the difference
\* of the fluxes through the first and the last face, times dt/(2*dx^2); with
\* no-flux boundaries and a constant kd they sum to zero.
C21_DiffusionConservation ==
    "erosion" \in done => Conserves(elevation)

\* two interior nodes with distinct non-zero increments on a profile that
\* is not monotone, under a kd that varies along the grid
C21_Witness ==
    /\ "erosion" \in done
    /\ N = 4
    /\ RGt(elevation[2], elevation[1]) /\ RLt(elevation[3], elevation[2])
    /\ ~ConstantField(kd)
    /\ erosion_dtopo[2] # R(0)
    /\ erosion_dtopo[3] # R(0)
    /\ erosion_dtopo[2] # erosion_dtopo[3]
    /\ SumRange(erosion_dtopo, 2, N - 1) # R(0)

\* the no-flux case happens: flat at both ends, constant kd, interior moving
C21_WitnessNoFlux ==
    /\ "erosion" \in done
    /\ N >= 4
    /\ NoFluxBoundaries(elevation)
    /\ ConstantField(kd)
    /\ \E i \in 2..(N - 1) : erosion_dtopo[i] # R(0)

\* ------------------------------------------------------------------ C22
AllZero(s) == \A i \in 1..Len(s) : s[i] = R(0)

\* C22: if every increment published in a step is zero at every node, then
\* after Topography.run_step every node but the last holds its value of
\* before the step, and the last node holds the value of the node before it.
C22_ZeroIncrements ==
    (JustAccumulated /\ AllZero(erosion_dtopo) /\ AllZero(uplift_dtopo)) =>
        /\ \A i \in 1..(N - 1) : elevation[i] = elevation_old[i]
        /\ elevation[N] = elevation[N - 1]

\* a step of zero increments on a sloping profile: only the last node moved
C22_Witness ==
    /\ JustAccumulated
    /\ AllZero(erosion_dtopo)
    /\ AllZero(uplift_dtopo)
    /\ N >= 3
    /\ elevation_old[N - 1] # elevation_old[N - 2]
    /\ elevation[N] # elevation_old[N]

\* ------------------------------------------------------------------ C23
\* the initialization stage is over and no step has begun
Initialized == phase = "idle" /\ steps = 0 /\ done = {}

\* C23: after initialization and before the first run_step, dx is
\* length/(N-1) and the increment buffers of Erosion and of Uplift both
\* exist and hold zero at every one of the N nodes.
C23_BuffersInitialized ==
    (Initialized /\ ~InvalidGrid) =>
        /\ dx = RDiv(length, R(nx - 1))
        /\ erosion_dtopo = Zeros(nx)
        /\ uplift_dtopo = Zeros(nx)

\* what the code does meet: dx and Erosion's buffer
C23_ErosionInitialized ==
    (Initialized /\ ~InvalidGrid) =>
        /\ dx = RDiv(length, R(nx - 1))
        /\ erosion_dtopo = Zeros(nx)

\* ------------------------------------------------------------------ C24
\* C24: for length > 0 and nx >= 2 initialization yields exactly nx nodes,
\* node i (from 0) at i*length/(nx-1), so 0 at node 0 and length at the
\* last node, and dx = length/(nx-1).
C24_GridConstruction ==
    (phase # "created" /\ ~InvalidGrid) =>
        /\ phase # "error"
        /\ dx = Rat(length.n, length.d * (nx - 1))
        /\ steps = 0 =>
              /\ Len(elevation) = nx
              /\ \A i \in 1..nx : elevation[i] = Rat((i - 1) * length.n, (nx - 1) * length.d)
              /\ elevation[1] = R(0)
              /\ elevation[nx] = length
              /\ \A i \in 2..nx : RSub(elevation[i], elevation[i - 1]) = dx

\* the example: length 4 and nx 5 give [0, 1, 2, 3, 4] and dx = 1
C24_Witness ==
    /\ Initialized
    /\ nx = 5
    /\ length = R(4)
    /\ elevation = <<R(0), R(1), R(2), R(3), R(4)>>
    /\ dx = R(1)

\* a grid whose spacing is not a whole number
C24_WitnessFraction ==
    /\ Initialized
    /\ nx = 4
    /\ length = R(2)
    /\ elevation = <<R(0), Rat(2, 3), Rat(4, 3), R(2)>>
    /\ dx = Rat(2, 3)

\* ------------------------------------------------------------------ C25
\* integrated[i-1] >= integrated[i] for every i in 1..N-1 (0-based)
NonIncreasing(s) == \A i \in 2..Len(s) : RLe(s[i], s[i - 1])

NonNegativeRate == \A i \in 1..nx : RLe(R(0), FieldAt(p_rate, i))

\* C25 as stated: for every rate field broadcastable to N, the integrated
\* profile is non-increasing from node 0 to node N-1.
C25_MonotoneEveryRate ==
    steps >= 1 => NonIncreasing(integrated)

\* C25, amended: for every rate field that is nowhere negative, the
\* integrated profile is non-increasing from node 0 to node N-1.
C25_MonotoneNonNegativeRate ==
    (steps >= 1 /\ NonNegativeRate) => NonIncreasing(integrated)

\* a rate that is zero at some nodes and positive at others: the profile
\* falls at some nodes and stays level at others
C25_Witness ==
    /\ steps >= 1
    /\ nx = 4
    /\ NonNegativeRate
    /\ p_rate.tag = "array" /\ Len(p_rate.v) = nx
    /\ RGt(integrated[1], integrated[2])
    /\ integrated[2] = integrated[3]
    /\ RGt(integrated[3], integrated[4])

\* ------------------------------------------------------------------ C26
\* the diffusion increment at node i (1-based) as a function of the surface,
\* kd, dx and dt alone
ErosionIncrement(s, i) ==
    IF Len(s) = 2 \/ i = 1 THEN R(0)
    ELSE IF i = Len(s) THEN DiffusionFormula(s, i - 1)
    ELSE DiffusionFormula(s, i)

\* the uplift increment at node i (1-based) as a function of rate and dt alone
UpliftIncrement(i) == IF i = 1 THEN R(0) ELSE RMul(FieldAt(rate, i), dt)

\* C26: Erosion.run_step overwrites every entry of its buffer, so the
\* increment it publishes is a function of the elevation, kd, dx and dt and
\* does not depend on what the buffer held before; likewise Uplift.run_step
\* with respect to rate and dt.
C26_NoStateInIncrements ==
    /\ "erosion" \in done =>
          /\ Len(erosion_dtopo) = N
          /\ \A i \in 1..N : erosion_dtopo[i] = ErosionIncrement(elevation, i)
          /\ \A b \in BufferValues :
                erosion_dtopo = ErosionDtopo([i \in 1..N |-> R(b)], elevation,
                                             BroadcastTo(kd, N), dx, dt)
    /\ "uplift" \in done =>
          /\ Len(uplift_dtopo) = N
          /\ \A i \in 1..N : uplift_dtopo[i] = UpliftIncrement(i)

\* both buffers held 1 at every node when the step began; both were
\* rewritten, on three nodes to zero at the first and to values other than
\* 1 elsewhere
C26_Witness ==
    /\ done = {"erosion", "uplift"}
    /\ N = 3
    /\ step_start[2] = <<R(1), R(1), R(1)>>
    /\ step_start[3] = <<R(1), R(1), R(1)>>
    /\ erosion_dtopo[1] = R(0)
    /\ erosion_dtopo[2] # R(1) /\ erosion_dtopo[2] # R(0)
    /\ erosion_dtopo[3] = erosion_dtopo[2]
    /\ uplift_dtopo[1] = R(0)
    /\ uplift_dtopo[2] = Rat(1, 2)

\* on two nodes, where the slice dtopo[1:-1] is empty, the buffer is still
\* rewritten whole
C26_WitnessTwoNodes ==
    /\ "erosion" \in done
    /\ N = 2
    /\ step_start[2] = <<R(1), R(1)>>
    /\ erosion_dtopo = <<R(0), R(0)>>

\* ------------------------------------------------------------------ C27
\* the first m entries of s
Prefix(s, m) == SubSeq(s, 1, m)

\* computeHydro on the first m nodes alone, with a0 in place of accum[0]
HydroOfPrefix(m, a0) ==
    computeHydro(Prefix(B, m), Prefix(z, m), [Prefix(accum, m) EXCEPT ![1] = a0], dx, K)

\* the loop body on nodes i-1 and i alone, from the previous water table
HydroOfPair(i) ==
    HydroNode(<<B[i - 1], B[i]>>, <<z[i - 1], z[i]>>, <<R(0), accum[i]>>, dx, K, H[i - 1], 2)

\* C27: H[i] is determined by H[i-1] and by z, B, accum at nodes i-1 and i;
\* hence H[0..i] is determined by z and B at nodes 0..i and accum at nodes
\* 1..i: the same values result when the nodes beyond i are cut off and
\* accum[0] is replaced, so two inputs that agree there yield the same H[0..i].
C27_LeftToRight ==
    phase = "returned" =>
        /\ Len(H) = Len(z)
        /\ \A i \in 2..Len(z) : H[i] = HydroOfPair(i)
        /\ \A m \in 1..Len(z) : \A a \in AccumValues \cup {2} :
               HydroOfPrefix(m, R(a)) = Prefix(H, m)

\* three nodes, none clamped, where the last node's inputs do matter for
\* H[2] (0-based) while H[0..1] is what the first two nodes alone give
C27_Witness ==
    /\ phase = "returned"
    /\ Len(z) = 3
    /\ accum[1] # R(0)
    /\ \A i \in 2..3 : RLt(H[i], z[i]) /\ RGt(H[i], RSub(z[i], B[i]))
    /\ H[3] # H[2]
    /\ computeHydro(B, z, [accum EXCEPT ![3] = RAdd(accum[3], R(1))], dx, K)[3] # H[3]
    /\ computeHydro(B, z, [accum EXCEPT ![3] = RAdd(accum[3], R(1))], dx, K)[2] = H[2]

\* ------------------------------------------------------------------ C28
\* C28: for every x, the empty and the one-element sequence included,
\* integrate(x) returns, its result has the length of x, x is left as it
\* was, and a later call on the same x returns the same result.
C28_IntegratePure ==
    /\ [](phase = "idle" => ENABLED IntegrateCall)
    /\ [](phase = "returned" => (Len(integ) = Len(x) /\ integ = integrate(x)))
    /\ [][x' = x]_vars
    /\ [][phase = "returned" => integ' = integ]_vars

\* a call on three values returned a result that differs from its argument
C28_Witness ==
    /\ phase = "returned"
    /\ Len(x) = 3
    /\ Len(integ) = 3
    /\ integ # x
    /\ x[1] # x[2]

C28_WitnessEmpty == phase = "returned" /\ x = <<>> /\ integ = <<>>

C28_WitnessOne == phase = "returned" /\ Len(x) = 1 /\ integ = x /\ x[1] # R(0)

\* ------------------------------------------------------------------ C29
\* dt*kd/dx^2 <= 1/2 for a step of duration d, kd a scalar
StableStep(d) == RLe(RDiv(RMul(d, kd.v[1]), RMul(dx, dx)), Rat(1, 2))

\* every entry of s lies between the least and the greatest entry of r
WithinRangeOf(s, r) ==
    \A i \in 1..Len(s) :
        /\ \E j \in 1..Len(r) : RLe(r[j], s[i])
        /\ \E j \in 1..Len(r) : RLe(s[i], r[j])

DiffusionAlone ==
    /\ kd.tag = "scalar" /\ RLe(R(0), kd.v[1])
    /\ rate.tag = "scalar" /\ rate.v[1] = R(0)

\* the profile initialization leaves
InitialProfile == GeomInitialize(length, nx)

\* C29: in a run with zero uplift and a constant scalar kd >= 0 whose steps
\* all satisfy dt*kd/dx^2 <= 1/2, every elevation stays within the least and
\* the greatest value of the initial profile, after any number of steps; and
\* each such step keeps every elevation within the range of the profile
\* before it.
C29_BoundedWhenStable ==
    DiffusionAlone =>
        /\ StableStep(dt_max) => WithinRangeOf(elevation, InitialProfile)
        /\ (JustAccumulated /\ StableStep(dt)) => WithinRangeOf(elevation, elevation_old)

\* after the last of the steps, all at dt*kd/dx^2 <= 1/2 and the largest
\* at exactly 1/2, the profile has moved and is still moving
C29_Witness ==
    /\ JustAccumulated
    /\ steps = MaxStableSteps
    /\ DiffusionAlone
    /\ StableStep(dt_max)
    /\ RDiv(RMul(dt_max, kd.v[1]), RMul(dx, dx)) = Rat(1, 2)
    /\ N >= 4
    /\ elevation # elevation_old
    /\ elevation # InitialProfile
    /\ erosion_dtopo[2] # R(0)

\* with dt*kd/dx^2 > 1/2 nothing keeps the elevation in the initial range
C29_WitnessUnstable ==
    /\ JustAccumulated
    /\ DiffusionAlone
    /\ ~StableStep(dt_max)
    /\ ~WithinRangeOf(elevation, InitialProfile)

\* ------------------------------------------------------------------ C30
\* C30: the value given to Geom.slope changes nothing: whatever it is, the
\* initial elevation rises by length/(nx-1) per node from 0 to length, and
\* dx, the increments and the elevation after every step are the functions
\* of nx, length, kd, rate and the step durations that hold no slope.
C30_SlopeHasNoEffect ==
    (phase # "created" /\ ~InvalidGrid) =>
        /\ dx = RDiv(length, R(nx - 1))
        /\ steps = 0 =>
              \A i \in 1..nx : elevation[i] = RDiv(RMul(R(i - 1), length), R(nx - 1))
        /\ "erosion" \in done =>
              \A i \in 1..nx : erosion_dtopo[i] = ErosionIncrement(elevation, i)
        /\ "uplift" \in done =>
              \A i \in 1..nx : uplift_dtopo[i] = UpliftIncrement(i)
        /\ JustAccumulated =>
              /\ \A i \in 1..nx : erosion_dtopo[i] = ErosionIncrement(elevation_old, i)
              /\ \A i \in 1..nx : uplift_dtopo[i] = UpliftIncrement(i)
              /\ \A i \in 1..(nx - 1) : elevation[i] = CommittedFrom(elevation_old, i)
              /\ elevation[nx] = elevation[nx - 1]

\* a run given a slope of 2 on a grid of length 3: the profile rises by 1
\* per node all the same, and two steps later the elevation has moved
C30_Witness ==
    /\ slope = R(2)
    /\ nx = 4
    /\ length = R(3)
    /\ JustAccumulated
    /\ steps = 2
    /\ elevation_old[2] = R(1)
    /\ erosion_dtopo[3] # R(0)
    /\ elevation # elevation_old

\* the same run given a slope of 0 is in the same state
C30_WitnessOtherSlope ==
    /\ slope = R(0)
    /\ nx = 4
    /\ length = R(3)
    /\ JustAccumulated
    /\ steps = 2
    /\ elevation_old[2] = R(1)
    /\ erosion_dtopo[3] # R(0)
    /\ elevation # elevation_old

====
